---- MODULE Spec2Model ----
(***************************************************************************)
(* Model of the SWAP accounting core of swarm (src/swap/swap.go): the      *)
(* per-peer balance ledger, the cheque factory and their persistence in    *)
(* the state store.  One Swap instance (a "session") runs over a state     *)
(* store that outlives it; New starts a fresh session over the same store. *)
(***************************************************************************)
EXTENDS Integers, Sequences, FiniteSets, TLC

\* ------------------------------------------------------------------ bounds
\* number of peers the node accounts with
NumPeers == 1
\* Add is called with an amount in -MaxAmount..MaxAmount
MaxAmount == 2
\* total number of Add calls in a behaviour
MaxOps == 2
\* the oracle converts honey at a rate in 1..MaxRate
MaxRate == 1
\* value of Swap.paymentThreshold (DefaultPaymentThreshold, scaled down)
DefaultPaymentThreshold == 2
\* value of Swap.disconnectThreshold (DefaultDisconnectThreshold, scaled down)
DefaultDisconnectThreshold == 2
\* number of tries of deployLoop (deployRetries, scaled down)
deployRetries == 2
\* number of deploy calls in a behaviour
MaxDeploys == 2
\* number of Add calls in a behaviour with read accessors
MaxReadOps == 1
\* number of sessions that call Add concurrently
NumProcs == 2
\* largest proximity order, depth and bin limit given to syncSubscriptionsDiff
MaxPO == 3

Peers == 1..NumPeers
Amounts == (0 - MaxAmount)..MaxAmount
Rates == 1..MaxRate

\* ------------------------------------------------------------ error values
NoErr == "nil"
\* state.ErrNotFound
ErrNotFound == "ErrNotFound"
\* any other error of stateStore.Get
ErrStoreGet == "ErrStoreGet"
\* an error of stateStore.Put
ErrStorePut == "ErrStorePut"
\* errors.New(disconnectMessage)
ErrDisconnect == "ErrDisconnect"
\* an error of oracle.GetPrice
ErrPrice == "ErrPrice"
\* an error of cheque.Sign
ErrSign == "ErrSign"
\* an error of swapPeer.Send
ErrStoreKeys == "ErrStoreKeys"
ErrSend == "ErrSend"

\* ------------------------------------------------------------------- state
VARIABLES
    balances,    \* Swap.balances: map peer -> int64 (a function on the cached peers)
    cheques,     \* Swap.cheques: map peer -> *Cheque (NilCheque is a nil pointer)
    stateStore,  \* the state.Store: key -> value, on the keys that exist
    issued,      \* per peer, the cheques createCheque returned, with what became of them
    deltas,      \* per peer, the sum of the amounts Add applied to the balance
    over,        \* the peers whose balance has reached the disconnect threshold
    modified,    \* the peers whose cached balance this session has modified
    credited,    \* the peers for which Add was called with a positive amount
    ops,         \* number of Add calls so far
    last,        \* the last call: its inputs, its result and what it did
    contractReference,  \* Swap.contractReference: 0 is nil, n the handle of deployment n
    ownerContract,      \* Swap.owner.Contract: 0 is the address given to New
    dpc,         \* where deploy is: "idle", "head" (of the loop), "attempt", "done"
    try,         \* deployLoop: the loop counter
    tx,          \* deployLoop: the deployment transaction of the last submission
    addr,        \* deployLoop: the named result addr
    derr,        \* deployLoop: the named result err, <<kind, attempt>>
    dresult,     \* what the last deploy returned: the address recorded, the error
    dlog,        \* the waits and attempts of the deploy call, in order
    before,      \* contractReference and owner.Contract when deploy was called
    deployed,    \* the chain: the deployments that were confirmed
    attempts,    \* number of deployment attempts so far, all calls together
    deploys,     \* number of deploy calls so far
    lock,        \* Swap.lock: TRUE while it is held
    pc,          \* where the Add call of each session is
    calls,       \* the Add call of each session: its peer and its amount
    entry,       \* the balance of the call's peer when the call took the lock
    read,        \* the last Balance read made while Add calls run
    sync         \* the last call of syncSubscriptionsDiff: its arguments and results

ledgerVars == <<balances, cheques, stateStore, issued, deltas, over, modified, credited,
                ops, last>>
deployVars == <<contractReference, ownerContract, dpc, try, tx, addr, derr, dresult,
                dlog, before, deployed, attempts, deploys>>
concVars == <<lock, pc, calls, entry, read>>
vars == <<ledgerVars, deployVars, concVars, sync>>

Procs == 1..NumProcs

\* ------------------------------------------------------------------- maps
EmptyMap == [k \in {} |-> 0]
MapPut(m, k, v) == [x \in (DOMAIN m) \cup {k} |-> IF x = k THEN v ELSE m[x]]

\* a nil *Cheque
NilCheque == [nil |-> TRUE, Serial |-> 0, Amount |-> 0, Honey |-> 0, Beneficiary |-> 0]

\* ------------------------------------------------------------- store keys
balancePrefix == "balance_"
sentChequePrefix == "sent_cheque_"
receivedChequePrefix == "received_cheque_"

balanceKey(peer) == <<balancePrefix, peer>>
sentChequeKey(peer) == <<sentChequePrefix, peer>>
receivedChequeKey(peer) == <<receivedChequePrefix, peer>>

\* --------------------------------------------------- the state store (external)
\* Get(key, &v): v is left at its zero value unless the key is read
storeGet(store, key, fault, zero) ==
    IF fault THEN [value |-> zero, err |-> ErrStoreGet]
    ELSE IF key \in DOMAIN store THEN [value |-> store[key], err |-> NoErr]
    ELSE [value |-> zero, err |-> ErrNotFound]

\* Put(key, v): a failed Put writes nothing
storePut(store, key, value, fault) ==
    IF fault THEN [store |-> store, err |-> ErrStorePut]
    ELSE [store |-> MapPut(store, key, value), err |-> NoErr]

\* the oracle (external): price = 0 stands for a failed conversion
GetPrice(honey, price) ==
    IF price = 0 THEN [amount |-> 0, err |-> ErrPrice]
    ELSE [amount |-> honey * price, err |-> NoErr]

\* ------------------------------------------------------------ fault choices
\* the outcomes of the external calls of one sendCheque: price is the rate the
\* oracle applies (0: GetPrice fails), the others tell whether the call fails.
\* A call that is not reached, or that cannot fail, is fixed to "no fault".
SendChequeFaults(chequeCached) ==
    { f \in [price : 0..MaxRate, getCheque : BOOLEAN, sign : BOOLEAN,
             putCheque : BOOLEAN, putBalance : BOOLEAN, send : BOOLEAN] :
        /\ chequeCached => ~f.getCheque
        /\ f.price = 0 => ~f.getCheque /\ ~f.sign
        /\ (f.price = 0 \/ f.sign) => ~f.putCheque
        /\ (f.price = 0 \/ f.sign \/ f.putCheque) => ~f.putBalance /\ ~f.send }

\* ------------------------------------------------------------------ ledger
\* Swap.paymentThreshold and Swap.disconnectThreshold, set by New
paymentThreshold == DefaultPaymentThreshold
disconnectThreshold == DefaultDisconnectThreshold

\* swapPeer.beneficiary of the peer returned by getPeer
beneficiary(peer) == peer

\* loadBalance: fills the cache entry of a peer that has none
loadBalance(bals, store, peer, getFault) ==
    IF peer \in DOMAIN bals
    THEN [balances |-> bals, err |-> NoErr]
    ELSE LET got == storeGet(store, balanceKey(peer), getFault, 0)
         IN  [balances |-> MapPut(bals, peer, got.value), err |-> got.err]

\* variant: a missing key aborts the call like any other load error
loadFailedOnAnyError(err) == err # NoErr

\* Add, line 151: the load errors that abort the call
loadFailed(err) == err # NoErr /\ err # ErrNotFound

\* variant: a balance exactly at the threshold is let through
overDisconnectThresholdStrict(balance) == balance > disconnectThreshold

\* variant: the test takes the size of the balance, debt included
overDisconnectThresholdEitherSide(balance) ==
    balance >= disconnectThreshold \/ 0 - balance >= disconnectThreshold

\* Add, line 159: the disconnect-threshold test
overDisconnectThreshold(balance) == balance >= disconnectThreshold

\* variant: a debt exactly at the threshold does not settle
overPaymentThresholdStrict(newBalance) == newBalance < 0 - paymentThreshold

\* Add, line 176: the payment-threshold test
overPaymentThreshold(newBalance) == newBalance <= 0 - paymentThreshold

\* updateBalance: adds amount to the cached balance, then writes it to the store
updateBalance(bals, store, peer, amount, putFault) ==
    LET old == IF peer \in DOMAIN bals THEN bals[peer] ELSE 0
        peerBalance == old + amount
        put == storePut(store, balanceKey(peer), peerBalance, putFault)
    IN  [balances |-> MapPut(bals, peer, peerBalance), stateStore |-> put.store,
         balance |-> peerBalance, err |-> put.err]

\* resetBalance: updateBalance, its result dropped
resetBalance(bals, store, peer, amount, putFault) ==
    LET upd == updateBalance(bals, store, peer, amount, putFault)
    IN  [balances |-> upd.balances, stateStore |-> upd.stateStore]

\* loadLastSentCheque: fills the cheque cache entry of a peer that has none
loadLastSentCheque(chqs, store, peer, getFault) ==
    IF peer \in DOMAIN chqs
    THEN [cheques |-> chqs, err |-> NoErr]
    ELSE LET got == storeGet(store, sentChequeKey(peer), getFault, NilCheque)
         IN  [cheques |-> MapPut(chqs, peer, got.value), err |-> got.err]

\* createCheque, lines 285-299: serial and cumulative amount of the next cheque
nextCheque(lastCheque, amount) ==
    IF lastCheque.nil
    THEN [nil |-> FALSE, Serial |-> 1, Amount |-> amount, Honey |-> 0, Beneficiary |-> 0]
    ELSE [nil |-> FALSE, Serial |-> lastCheque.Serial + 1,
          Amount |-> lastCheque.Amount + amount, Honey |-> 0, Beneficiary |-> 0]

\* variant: the balance is taken as it is, its sign kept
honeyOfSigned(peerBalance) == peerBalance

\* createCheque, line 269: the honey amount is the balance negated
honeyOf(peerBalance) == 0 - peerBalance

\* variant: the last cheque is loaded before the price is asked for
createChequeLoadFirst(bals, chqs, store, peer, f) ==
    LET honey == honeyOf(bals[peer])
        price == GetPrice(honey, f.price)
        ld == loadLastSentCheque(chqs, store, peer, f.getCheque)
        cheque == [nextCheque(ld.cheques[peer], price.amount) EXCEPT
                     !.Honey = honey, !.Beneficiary = beneficiary(peer)]
    IN  IF price.err # NoErr
        THEN [cheques |-> ld.cheques, cheque |-> NilCheque, amount |-> 0,
              err |-> price.err]
        ELSE [cheques |-> ld.cheques, cheque |-> cheque, amount |-> price.amount,
              err |-> IF f.sign THEN ErrSign ELSE NoErr]

\* createCheque: the next cheque for the peer, from its balance and its last cheque
createCheque(bals, chqs, store, peer, f) ==
    LET peerBalance == bals[peer]
        honey == honeyOf(peerBalance)
        price == GetPrice(honey, f.price)
        ld == loadLastSentCheque(chqs, store, peer, f.getCheque)
        lastCheque == ld.cheques[peer]
        cheque == [nextCheque(lastCheque, price.amount) EXCEPT
                     !.Honey = honey, !.Beneficiary = beneficiary(peer)]
    IN  IF price.err # NoErr
        THEN [cheques |-> chqs, cheque |-> NilCheque, amount |-> 0, err |-> price.err]
        ELSE [cheques |-> ld.cheques, cheque |-> cheque, amount |-> price.amount,
              err |-> IF f.sign THEN ErrSign ELSE NoErr]

\* variant: the cheque is sent although writing it to the store failed
sendChequeSendAnyway(bals, chqs, store, peer, f) ==
    LET cc == createCheque(bals, chqs, store, peer, f)
        chqs1 == MapPut(cc.cheques, peer, cc.cheque)
        put == storePut(store, sentChequeKey(peer), cc.cheque, f.putCheque)
        rst == resetBalance(bals, put.store, peer, cc.cheque.Amount, f.putBalance)
    IN  IF cc.err # NoErr
        THEN [balances |-> bals, cheques |-> cc.cheques, stateStore |-> store,
              err |-> cc.err, cheque |-> NilCheque, amount |-> 0,
              stored |-> FALSE, emitted |-> FALSE]
        ELSE [balances |-> rst.balances, cheques |-> chqs1, stateStore |-> rst.stateStore,
              err |-> IF put.err # NoErr THEN put.err
                      ELSE IF f.send THEN ErrSend ELSE NoErr,
              cheque |-> cc.cheque, amount |-> cc.amount,
              stored |-> (put.err = NoErr), emitted |-> TRUE]

\* variant: a cheque whose transmission failed is taken back from the cache
sendChequeRetract(bals, chqs, store, peer, f) ==
    LET cc == createCheque(bals, chqs, store, peer, f)
        chqs1 == MapPut(cc.cheques, peer, cc.cheque)
        put == storePut(store, sentChequeKey(peer), cc.cheque, f.putCheque)
        rst == resetBalance(bals, put.store, peer, cc.cheque.Amount, f.putBalance)
    IN  IF cc.err # NoErr
        THEN [balances |-> bals, cheques |-> cc.cheques, stateStore |-> store,
              err |-> cc.err, cheque |-> NilCheque, amount |-> 0,
              stored |-> FALSE, emitted |-> FALSE]
        ELSE IF put.err # NoErr
        THEN [balances |-> bals, cheques |-> chqs1, stateStore |-> store,
              err |-> put.err, cheque |-> cc.cheque, amount |-> cc.amount,
              stored |-> FALSE, emitted |-> FALSE]
        ELSE [balances |-> rst.balances,
              cheques |-> IF f.send THEN cc.cheques ELSE chqs1,
              stateStore |-> rst.stateStore,
              err |-> IF f.send THEN ErrSend ELSE NoErr,
              cheque |-> cc.cheque, amount |-> cc.amount,
              stored |-> TRUE, emitted |-> TRUE]

\* sendCheque: creates the cheque, records it, credits the balance, sends it
sendCheque(bals, chqs, store, peer, f) ==
    LET cc == createCheque(bals, chqs, store, peer, f)
        chqs1 == MapPut(cc.cheques, peer, cc.cheque)
        put == storePut(store, sentChequeKey(peer), cc.cheque, f.putCheque)
        rst == resetBalance(bals, put.store, peer, cc.cheque.Amount, f.putBalance)
    IN  IF cc.err # NoErr
        THEN [balances |-> bals, cheques |-> cc.cheques, stateStore |-> store,
              err |-> cc.err, cheque |-> NilCheque, amount |-> 0,
              stored |-> FALSE, emitted |-> FALSE]
        ELSE IF put.err # NoErr
        THEN [balances |-> bals, cheques |-> chqs1, stateStore |-> store,
              err |-> put.err, cheque |-> cc.cheque, amount |-> cc.amount,
              stored |-> FALSE, emitted |-> FALSE]
        ELSE [balances |-> rst.balances, cheques |-> chqs1, stateStore |-> rst.stateStore,
              err |-> IF f.send THEN ErrSend ELSE NoErr,
              cheque |-> cc.cheque, amount |-> cc.amount,
              stored |-> TRUE, emitted |-> TRUE]

\* Balance: the cached balance, else the one in the store
\* variant: Balance caches what it reads, as loadBalance does
BalanceCaching(bals, store, peer, getFault) ==
    LET ld == loadBalance(bals, store, peer, getFault)
    IN  [balances |-> ld.balances, value |-> ld.balances[peer], err |-> ld.err]

Balance(bals, store, peer, getFault) ==
    IF peer \in DOMAIN bals
    THEN [balances |-> bals, value |-> bals[peer], err |-> NoErr]
    ELSE LET got == storeGet(store, balanceKey(peer), getFault, 0)
         IN  [balances |-> bals, value |-> got.value, err |-> got.err]

\* keyToID: the peer named by a store key, the part of the key after the prefix
keyToID(key, prefix) == key[2]

\* stateStore.Keys(prefix): the keys of the store that begin with the prefix
storeKeys(store, prefix) == {key \in DOMAIN store : key[1] = prefix}

\* the orders in which a map or the store can enumerate a set of keys
Orders(S) == {o \in [1..Cardinality(S) -> S] : \A i, j \in DOMAIN o : i # j => o[i] # o[j]}

\* variant: no peer is taken to be known already
peerExistsNever(knownPeers, peerID) == FALSE

\* BalancePeers, line 364: the peer was already added from the cache
peerExists(knownPeers, peerID) == peerID \in knownPeers

\* BalancePeers, lines 361-367: the store peers not yet known are appended
RECURSIVE addStorePeers(_, _, _)
addStorePeers(peers, storeBalancePeers, knownPeers) ==
    IF storeBalancePeers = <<>> THEN peers
    ELSE LET peerID == keyToID(Head(storeBalancePeers), balancePrefix)
         IN  addStorePeers(IF peerExists(knownPeers, peerID) THEN peers
                           ELSE Append(peers, peerID),
                           Tail(storeBalancePeers), knownPeers)

\* BalancePeers: memOrder is the order the cache is ranged over, keyOrder the
\* order of the keys the store returns, keysFault a failing Keys
BalancePeers(memOrder, keyOrder, keysFault) ==
    IF keysFault THEN [peers |-> <<>>, err |-> ErrStoreKeys]
    ELSE [peers |-> addStorePeers(memOrder, keyOrder,
                                  {memOrder[i] : i \in DOMAIN memOrder}),
          err |-> NoErr]

\* Balances, lines 334-340: the balance of each listed peer, the first error ends it
RECURSIVE collectBalances(_, _, _, _, _)
collectBalances(bals, store, swapPeers, getFaults, acc) ==
    IF swapPeers = <<>> THEN [all |-> acc, err |-> NoErr]
    ELSE LET peer == Head(swapPeers)
             b == Balance(bals, store, peer, peer \in getFaults)
         IN  IF b.err # NoErr THEN [all |-> EmptyMap, err |-> b.err]
             ELSE collectBalances(bals, store, Tail(swapPeers), getFaults,
                                  MapPut(acc, peer, b.value))

Balances(bals, store, memOrder, keyOrder, keysFault, getFaults) ==
    LET bp == BalancePeers(memOrder, keyOrder, keysFault)
    IN  IF bp.err # NoErr THEN [all |-> EmptyMap, err |-> bp.err]
        ELSE collectBalances(bals, store, bp.peers, getFaults, EmptyMap)

\* ------------------------------------------------------------ the last call
NoCall == [op |-> "New", peer |-> 0, amount |-> 0, err |-> NoErr, cached |-> FALSE,
           loadErr |-> NoErr, pre |-> 0, applied |-> FALSE, persisted |-> FALSE, newBalance |-> 0, attempts |-> 0,
           cheque |-> NilCheque, converted |-> 0, stored |-> FALSE, emitted |-> FALSE,
           value |-> 0, peers |-> <<>>, all |-> EmptyMap]

\* the end of an Add call: the state it leaves, and the record of what it did
Return(peer, bals, chqs, store, call) ==
    /\ balances' = bals
    /\ cheques' = chqs
    /\ stateStore' = store
    /\ last' = call
    /\ ops' = ops + 1
    /\ issued' = IF call.cheque.nil THEN issued
                 ELSE [issued EXCEPT ![peer] = Append(@,
                         [cheque |-> call.cheque, amount |-> call.converted,
                          stored |-> call.stored, emitted |-> call.emitted,
                          delivered |-> (call.emitted /\ call.err = NoErr)])]
    /\ deltas' = IF call.applied THEN [deltas EXCEPT ![peer] = @ + call.amount]
                 ELSE deltas
    /\ over' = IF bals[peer] >= disconnectThreshold THEN over \cup {peer} ELSE over
    /\ modified' = IF call.applied THEN modified \cup {peer} ELSE modified
    /\ credited' = IF call.amount > 0 THEN credited \cup {peer} ELSE credited
    /\ UNCHANGED <<deployVars, concVars, sync>>

\* -------------------------------------------------------------- deployment
\* a nil error of deployLoop; the error of attempt n is <<kind, n>>
NoDeployErr == <<"nil", 0>>

\* swap.Deploy and bind.WaitDeployed (external): what one attempt comes to
DeployOutcomes == {"submitErr", "confirmErr", "ok"}

\* swap.Deploy: the contract handle it returns, nil when the submission fails
deployHandle(outcome, n) == IF outcome = "submitErr" THEN 0 ELSE n

\* bind.WaitDeployed: the addresses it can return; with an error the zero
\* address, or the address of a deployment that has no code
waitAddresses(outcome, n) == IF outcome = "ok" THEN {n} ELSE {0, n}

\* variant: the delay is waited before every attempt, the first included
shouldWaitAlways(t) == t >= 0

\* deployLoop, line 471: the delay is waited before every attempt but the first
shouldWait(t) == t > 0

\* variant: the loop gives up one try early
moreTriesOneLess(t) == t < deployRetries - 1

\* deployLoop, line 470: the loop condition
moreTries(t) == t < deployRetries

\* ------------------------------------------------------------ concurrency
\* no Add call
NoAdd == [peer |-> 0, amount |-> 0]

\* the external services of a call that meets no fault, the price being 1:1
NoFaults == [price |-> 1, getCheque |-> FALSE, sign |-> FALSE,
             putCheque |-> FALSE, putBalance |-> FALSE, send |-> FALSE]

\* no Balance read
NoRead == [peer |-> 0, value |-> 0, during |-> 0, fatal |-> FALSE]

\* the sessions that call Add while another session reads
Adders == 1..(NumProcs - 1)

\* variant: the lock does not exclude
lockFreeAlways(l) == TRUE

\* s.lock.Lock(), line 146: it is taken when no one holds it
lockFree(l) == ~l

\* --------------------------------------------------- syncing subscriptions
\* uint is 64 bits wide; the modulus is scaled to 2^30, far above any bin
UintModulus == 2^30
uint(i) == i % UintModulus

\* intRange: the slice of the integers of [start, end), converted to uint
intRange(start, end) ==
    IF start < end THEN [i \in 1..(end - start) |-> uint(start + i - 1)] ELSE <<>>

\* syncBins: the range [start, end) of the bins to sync
syncBins(peerPO, depth, max) ==
    IF peerPO < depth
    THEN [start |-> peerPO, end |-> peerPO + 1]
    ELSE [start |-> depth, end |-> max + 1]

\* variant: only the starts of the two ranges are compared
syncSubscriptionsDiffStartsOnly(peerPO, prevDepth, newDepth, max) ==
    LET new == syncBins(peerPO, newDepth, max)
        prev == syncBins(peerPO, prevDepth, max)
    IN  IF prevDepth < 0
        THEN [subBins |-> intRange(new.start, new.end), quitBins |-> <<>>]
        ELSE [subBins |-> IF new.start < prev.start
                          THEN intRange(new.start, prev.start) ELSE <<>>,
              quitBins |-> IF prev.start < new.start
                           THEN intRange(prev.start, new.start) ELSE <<>>]

syncSubscriptionsDiff(peerPO, prevDepth, newDepth, max) ==
    LET new == syncBins(peerPO, newDepth, max)
        prev == syncBins(peerPO, prevDepth, max)
        sub1 == IF new.start < prev.start THEN intRange(new.start, prev.start) ELSE <<>>
        quit1 == IF prev.start < new.start THEN intRange(prev.start, new.start) ELSE <<>>
        quit2 == IF new.end < prev.end THEN quit1 \o intRange(new.end, prev.end) ELSE quit1
        sub2 == IF prev.end < new.end THEN sub1 \o intRange(prev.end, new.end) ELSE sub1
    IN  IF prevDepth < 0
        THEN [subBins |-> intRange(new.start, new.end), quitBins |-> <<>>]
        ELSE [subBins |-> sub2, quitBins |-> quit2]

\* no call of syncSubscriptionsDiff
NoSync == [called |-> FALSE, peerPO |-> 0, prevDepth |-> 0, newDepth |-> 0, max |-> 0,
           subBins |-> <<>>, quitBins |-> <<>>]

\* ----------------------------------------------------------------- actions
Init ==
    /\ balances = EmptyMap
    /\ cheques = EmptyMap
    /\ stateStore = EmptyMap
    /\ issued = [p \in Peers |-> <<>>]
    /\ deltas = [p \in Peers |-> 0]
    /\ over = {}
    /\ modified = {}
    /\ credited = {}
    /\ ops = 0
    /\ last = NoCall
    /\ contractReference = 0
    /\ ownerContract = 0
    /\ dpc = "idle"
    /\ try = 0
    /\ tx = 0
    /\ addr = 0
    /\ derr = NoDeployErr
    /\ dresult = [addr |-> 0, err |-> NoDeployErr]
    /\ dlog = <<>>
    /\ before = [reference |-> 0, contract |-> 0]
    /\ deployed = {}
    /\ attempts = 0
    /\ deploys = 0
    /\ lock = FALSE
    /\ pc = [p \in Procs |-> "idle"]
    /\ calls = [p \in Procs |-> NoAdd]
    /\ entry = [p \in Procs |-> 0]
    /\ read = NoRead
    /\ sync = NoSync

\* New: a new Swap over the same state store, its caches empty
New ==
    /\ balances' = EmptyMap
    /\ cheques' = EmptyMap
    /\ last' = NoCall
    /\ modified' = {}
    /\ UNCHANGED <<stateStore, issued, deltas, over, credited, ops>>
    /\ UNCHANGED <<deployVars, concVars, sync>>

\* Add: the accounting function, under the lock from entry to return
Add(peer, amount) ==
    /\ ops < MaxOps
    /\ \E getFault \in (IF peer \in DOMAIN balances THEN {FALSE} ELSE BOOLEAN) :
        LET ld == loadBalance(balances, stateStore, peer, getFault)
            pre == ld.balances[peer]
            call == [NoCall EXCEPT !.op = "Add", !.peer = peer, !.amount = amount,
                                   !.cached = (peer \in DOMAIN balances),
                                   !.loadErr = ld.err, !.pre = pre]
        IN  IF loadFailed(ld.err)
            THEN Return(peer, ld.balances, cheques, stateStore, [call EXCEPT !.err = ld.err])
            ELSE IF overDisconnectThreshold(pre)
            THEN Return(peer, ld.balances, cheques, stateStore,
                        [call EXCEPT !.err = ErrDisconnect])
            ELSE \E putFault \in BOOLEAN :
                LET upd == updateBalance(ld.balances, stateStore, peer, amount, putFault)
                    call1 == [call EXCEPT !.applied = TRUE, !.newBalance = upd.balance,
                                          !.persisted = (upd.err = NoErr)]
                IN  IF upd.err # NoErr
                    THEN Return(peer, upd.balances, cheques, upd.stateStore,
                                [call1 EXCEPT !.err = upd.err])
                    ELSE IF overPaymentThreshold(upd.balance)
                    THEN \E f \in SendChequeFaults(peer \in DOMAIN cheques) :
                        LET sc == sendCheque(upd.balances, cheques, upd.stateStore, peer, f)
                        IN  Return(peer, sc.balances, sc.cheques, sc.stateStore,
                                   [call1 EXCEPT !.err = sc.err, !.attempts = 1,
                                                 !.cheque = sc.cheque,
                                                 !.converted = sc.amount,
                                                 !.stored = sc.stored,
                                                 !.emitted = sc.emitted])
                    ELSE Return(peer, upd.balances, cheques, upd.stateStore, call1)

AddAny == \E peer \in Peers, amount \in Amounts : Add(peer, amount)

Next == AddAny \/ New

Spec == Init /\ [][Next]_vars

\* ------------------------------------------------------------ read actions
\* what a read accessor leaves alone: everything but the record of the call
ReadOnly ==
    /\ UNCHANGED <<cheques, stateStore, issued, deltas, over, modified, credited, ops>>
    /\ UNCHANGED <<deployVars, concVars, sync>>

\* Balance(peer)
ReadBalance(peer) ==
    /\ \E getFault \in (IF peer \in DOMAIN balances THEN {FALSE} ELSE BOOLEAN) :
        LET b == Balance(balances, stateStore, peer, getFault)
        IN  /\ balances' = b.balances
            /\ last' = [NoCall EXCEPT !.op = "Balance", !.peer = peer,
                                      !.cached = (peer \in DOMAIN balances),
                                      !.value = b.value, !.err = b.err]
    /\ ReadOnly

\* BalancePeers()
ReadBalancePeers ==
    /\ \E memOrder \in Orders(DOMAIN balances),
          keyOrder \in Orders(storeKeys(stateStore, balancePrefix)),
          keysFault \in BOOLEAN :
        LET bp == BalancePeers(memOrder, keyOrder, keysFault)
        IN  last' = [NoCall EXCEPT !.op = "BalancePeers", !.peers = bp.peers,
                                   !.err = bp.err]
    /\ UNCHANGED balances
    /\ ReadOnly

\* Balances()
ReadBalances ==
    /\ \E memOrder \in Orders(DOMAIN balances),
          keyOrder \in Orders(storeKeys(stateStore, balancePrefix)),
          keysFault \in BOOLEAN,
          getFaults \in SUBSET (Peers \ DOMAIN balances) :
        LET bs == Balances(balances, stateStore, memOrder, keyOrder, keysFault, getFaults)
        IN  last' = [NoCall EXCEPT !.op = "Balances", !.all = bs.all, !.err = bs.err]
    /\ UNCHANGED balances
    /\ ReadOnly

NextRead ==
    \/ ops < MaxReadOps /\ AddAny
    \/ New
    \/ \E peer \in Peers : ReadBalance(peer)
    \/ ReadBalancePeers
    \/ ReadBalances

SpecRead == Init /\ [][NextRead]_vars

\* ------------------------------------------------- concurrent Add, by steps
ConcOnly ==
    /\ UNCHANGED <<issued, deltas, over, modified, credited, ops, last>>
    /\ UNCHANGED <<deployVars, sync>>
    /\ UNCHANGED read

\* a session calls Add(amount, peer)
AddCall(p, peer, amount) ==
    /\ pc[p] = "idle"
    /\ calls' = [calls EXCEPT ![p] = [peer |-> peer, amount |-> amount]]
    /\ pc' = [pc EXCEPT ![p] = "lock"]
    /\ UNCHANGED <<balances, cheques, stateStore, lock, entry>>
    /\ ConcOnly

\* line 146: s.lock.Lock()
AddLock(p) ==
    /\ pc[p] = "lock"
    /\ lockFree(lock)
    /\ lock' = TRUE
    /\ entry' = [entry EXCEPT ![p] = Balance(balances, stateStore, calls[p].peer, FALSE).value]
    /\ pc' = [pc EXCEPT ![p] = "load"]
    /\ UNCHANGED <<balances, cheques, stateStore, calls>>
    /\ ConcOnly

\* lines 150-154: loadBalance
AddLoad(p) ==
    /\ pc[p] = "load"
    /\ LET ld == loadBalance(balances, stateStore, calls[p].peer, FALSE)
       IN  /\ balances' = ld.balances
           /\ pc' = [pc EXCEPT ![p] = IF loadFailed(ld.err) THEN "unlock" ELSE "check"]
    /\ UNCHANGED <<cheques, stateStore, lock, calls, entry>>
    /\ ConcOnly

\* lines 159-164: the disconnect threshold
AddCheck(p) ==
    /\ pc[p] = "check"
    /\ pc' = [pc EXCEPT ![p] = IF overDisconnectThreshold(balances[calls[p].peer])
                               THEN "unlock" ELSE "update"]
    /\ UNCHANGED <<balances, cheques, stateStore, lock, calls, entry>>
    /\ ConcOnly

\* lines 168-176: updateBalance and the payment threshold
AddUpdate(p) ==
    /\ pc[p] = "update"
    /\ LET upd == updateBalance(balances, stateStore, calls[p].peer, calls[p].amount, FALSE)
       IN  /\ balances' = upd.balances
           /\ stateStore' = upd.stateStore
           /\ pc' = [pc EXCEPT ![p] = IF upd.err = NoErr /\ overPaymentThreshold(upd.balance)
                                      THEN "cheque" ELSE "unlock"]
    /\ UNCHANGED <<cheques, lock, calls, entry>>
    /\ ConcOnly

\* line 179: sendCheque
AddCheque(p) ==
    /\ pc[p] = "cheque"
    /\ LET sc == sendCheque(balances, cheques, stateStore, calls[p].peer, NoFaults)
       IN  /\ balances' = sc.balances
           /\ cheques' = sc.cheques
           /\ stateStore' = sc.stateStore
    /\ pc' = [pc EXCEPT ![p] = "unlock"]
    /\ UNCHANGED <<lock, calls, entry>>
    /\ ConcOnly

\* line 147: the deferred s.lock.Unlock(), at the return
AddUnlock(p) ==
    /\ pc[p] = "unlock"
    /\ lock' = FALSE
    /\ pc' = [pc EXCEPT ![p] = "done"]
    /\ UNCHANGED <<balances, cheques, stateStore, calls, entry>>
    /\ ConcOnly

NextConc ==
    \E p \in Procs :
        \/ \E peer \in Peers, amount \in Amounts : AddCall(p, peer, amount)
        \/ AddLock(p)
        \/ AddLoad(p)
        \/ AddCheck(p)
        \/ AddUpdate(p)
        \/ AddCheque(p)
        \/ AddUnlock(p)

SpecConc == Init /\ [][NextConc]_vars

\* ------------------------------------------------ Balance read, no lock taken
\* the session that is between Lock and Unlock, 0 when there is none
Holder == IF \E p \in Procs : pc[p] \in {"load", "check", "update", "cheque", "unlock"}
          THEN CHOOSE p \in Procs : pc[p] \in {"load", "check", "update", "cheque", "unlock"}
          ELSE 0

\* Balance is not under the lock: a read that meets a write of s.balances by
\* Add is a data race; it returns the value before or after the write, or
\* the runtime ends the program (concurrent map read and map write)
ReadOutcomes ==
    {"value"} \cup (IF \E p \in Procs : pc[p] \in {"load", "update", "cheque"}
                    THEN {"fatal"} ELSE {})

\* Balance(peer), lines 311-320, called while Add calls are running
RaceBalance(peer) ==
    /\ \A p \in Procs : pc[p] # "dead"
    /\ \E outcome \in ReadOutcomes :
        IF outcome = "fatal"
        THEN /\ read' = [peer |-> peer, value |-> 0, during |-> Holder, fatal |-> TRUE]
             /\ pc' = [p \in Procs |-> "dead"]
        ELSE /\ read' = [peer |-> peer,
                         value |-> Balance(balances, stateStore, peer, FALSE).value,
                         during |-> Holder, fatal |-> FALSE]
             /\ UNCHANGED pc
    /\ UNCHANGED <<balances, cheques, stateStore, lock, calls, entry>>
    /\ UNCHANGED <<issued, deltas, over, modified, credited, ops, last>>
    /\ UNCHANGED <<deployVars, sync>>

NextRace ==
    \/ \E p \in Adders :
        \/ \E peer \in Peers, amount \in Amounts : AddCall(p, peer, amount)
        \/ AddLock(p)
        \/ AddLoad(p)
        \/ AddCheck(p)
        \/ AddUpdate(p)
        \/ AddCheque(p)
        \/ AddUnlock(p)
    \/ \E peer \in Peers : RaceBalance(peer)

SpecRace == Init /\ [][NextRace]_vars

\* ------------------------------------------------------------ sync actions
\* syncSubscriptionsDiff(peerPO, prevDepth, newDepth, max)
SyncDiff(peerPO, prevDepth, newDepth, max) ==
    /\ LET d == syncSubscriptionsDiff(peerPO, prevDepth, newDepth, max)
       IN  sync' = [called |-> TRUE, peerPO |-> peerPO, prevDepth |-> prevDepth,
                    newDepth |-> newDepth, max |-> max,
                    subBins |-> d.subBins, quitBins |-> d.quitBins]
    /\ UNCHANGED <<ledgerVars, deployVars, concVars>>

NextSync ==
    \E peerPO \in 0..MaxPO, prevDepth \in (0 - 1)..MaxPO, newDepth \in 0..MaxPO,
       max \in 0..MaxPO :
        SyncDiff(peerPO, prevDepth, newDepth, max)

SpecSync == Init /\ [][NextSync]_vars

\* ------------------------------------------------------- deployment actions
\* deploy is called: deployLoop starts with try = 0 and its results zero
DeployCall ==
    /\ dpc \in {"idle", "done"}
    /\ deploys < MaxDeploys
    /\ deploys' = deploys + 1
    /\ dpc' = "head"
    /\ try' = 0
    /\ tx' = 0
    /\ addr' = 0
    /\ derr' = NoDeployErr
    /\ dlog' = <<>>
    /\ before' = [reference |-> contractReference, contract |-> ownerContract]
    /\ UNCHANGED <<contractReference, ownerContract, dresult, deployed, attempts>>
    /\ UNCHANGED <<ledgerVars, concVars, sync>>

\* the loop is entered for one more try: time.Sleep(deployDelay) unless it is the first
DeployEnter ==
    /\ dpc = "head"
    /\ moreTries(try)
    /\ dlog' = IF shouldWait(try) THEN Append(dlog, "wait") ELSE dlog
    /\ dpc' = "attempt"
    /\ UNCHANGED <<contractReference, ownerContract, try, tx, addr, derr, dresult,
                   before, deployed, attempts, deploys>>
    /\ UNCHANGED <<ledgerVars, concVars, sync>>

\* one attempt: swap.Deploy, then bind.WaitDeployed; on success deployLoop
\* returns the address and deploy records it in owner.Contract
DeployAttempt(outcome) ==
    /\ dpc = "attempt"
    /\ attempts' = attempts + 1
    /\ dlog' = Append(dlog, outcome)
    /\ contractReference' = deployHandle(outcome, attempts')
    /\ tx' = IF outcome = "submitErr" THEN 0 ELSE attempts'
    /\ \E a \in (IF outcome = "submitErr" THEN {addr}
                 ELSE waitAddresses(outcome, attempts')) : addr' = a
    /\ IF outcome = "ok"
       THEN /\ derr' = NoDeployErr
            /\ deployed' = deployed \cup {attempts'}
            /\ ownerContract' = addr'
            /\ dresult' = [addr |-> addr', err |-> NoDeployErr]
            /\ dpc' = "done"
            /\ UNCHANGED try
       ELSE /\ derr' = <<outcome, attempts'>>
            /\ try' = try + 1
            /\ dpc' = "head"
            /\ UNCHANGED <<deployed, ownerContract, dresult>>
    /\ UNCHANGED <<before, deploys>>
    /\ UNCHANGED <<ledgerVars, concVars, sync>>

\* the tries are used up: deployLoop returns addr and err, deploy returns err
DeployExit ==
    /\ dpc = "head"
    /\ ~moreTries(try)
    /\ dresult' = [addr |-> addr, err |-> derr]
    /\ dpc' = "done"
    /\ UNCHANGED <<contractReference, ownerContract, try, tx, addr, derr, dlog,
                   before, deployed, attempts, deploys>>
    /\ UNCHANGED <<ledgerVars, concVars, sync>>

NextDeploy ==
    \/ DeployCall
    \/ DeployEnter
    \/ \E outcome \in DeployOutcomes : DeployAttempt(outcome)
    \/ DeployExit

SpecDeploy == Init /\ [][NextDeploy]_vars

\* ============================================================== properties
\* the step is an Add call for peer p
AddStep(p) == ops' = ops + 1 /\ last'.peer = p

\* C1: an Add for a peer whose cached balance is at or over the disconnect
\* threshold returns the disconnect error whatever the amount, leaves the cached
\* balances, the store and the cheques as they were and creates no cheque; and as
\* long as the session lasts the peer's cached balance stays where it is, so
\* every later Add for the peer is rejected the same way.
C1_OverThresholdRejected ==
    [][\A p \in Peers :
         (p \in DOMAIN balances /\ balances[p] >= disconnectThreshold /\ ops' = ops + 1)
         => /\ p \in DOMAIN balances' /\ balances'[p] = balances[p]
            /\ AddStep(p) => /\ last'.err = ErrDisconnect
                             /\ balances' = balances
                             /\ stateStore' = stateStore
                             /\ cheques' = cheques
                             /\ issued' = issued
                             /\ last'.attempts = 0
                             /\ ~last'.applied]_vars

\* an Add with a negative amount was rejected for a cached balance over the threshold
C1_Witness ==
    /\ last.op = "Add" /\ last.cached /\ last.pre >= disconnectThreshold
    /\ last.amount < 0 /\ last.err = ErrDisconnect

\* C2: an Add whose balance load and balance update succeeded returns no error,
\* whatever becomes of the cheque issuance it triggers.
C2_ChequeFailureContained ==
    (last.op = "Add" /\ last.persisted) => last.err = NoErr

\* the cheques createCheque returned for the peer, and those handed to the peer
Created(p) == issued[p]
Emitted(p) == SelectSeq(issued[p], LAMBDA e : e.emitted)

\* the serials of the log are 1, 2, 3, ...
Sequential(log) == \A i \in 1..Len(log) : log[i].cheque.Serial = i

\* the sum of the amounts the oracle converted for the cheques of the log
RECURSIVE Converted(_)
Converted(log) == IF log = <<>> THEN 0 ELSE log[1].amount + Converted(Tail(log))

\* the last cheque of the log carries the sum of the conversions of the log
Cumulative(log) == log = <<>> \/ log[Len(log)].cheque.Amount = Converted(log)

\* C3: the serials of the cheques issued to a peer are 1, 2, 3, ... without
\* reset or gap, across store failures, send failures and restarts; "issued" read
\* either as created by createCheque or as handed to the peer.
C3_SerialsSequential ==
    \A p \in Peers : Sequential(Created(p)) \/ Sequential(Emitted(p))

\* C4: the amount of the last cheque issued to a peer is the sum of the amounts
\* converted for all the cheques issued to it; "issued" read either way as in C3.
C4_AmountCumulative ==
    \A p \in Peers : Cumulative(Created(p)) \/ Cumulative(Emitted(p))

\* C5: an Add that issues a cheque leaves the balance at the balance before the
\* call plus the delta plus the amount converted for that cheque.
C5_CreditBackConverted ==
    (last.op = "Add" /\ last.emitted)
    => balances[last.peer] = last.pre + last.amount + last.converted

\* C6: for a peer that never reached the disconnect threshold (and, here, to
\* which no cheque was issued, so that nothing was credited back) the cached
\* balance is the sum of the applied deltas, and so is the balance a new
\* instance reads from the store.
C6_BalanceIsSumOfDeltas ==
    \A p \in Peers :
        (p \notin over /\ issued[p] = <<>>)
        => /\ p \in DOMAIN balances => balances[p] = deltas[p]
           /\ Balance(EmptyMap, stateStore, p, FALSE).value = deltas[p]

\* C7: between Add calls, the store holds the cached balance of every peer whose
\* cached balance this session has modified, store write failures included.
C7_CacheAndStoreCoupled ==
    \A p \in modified :
        /\ balanceKey(p) \in DOMAIN stateStore
        /\ stateStore[balanceKey(p)] = balances[p]

\* the balance of the peer as the next call finds it: cached, else stored, else 0
PreBalance(p) == Balance(balances, stateStore, p, FALSE).value

\* C8: the disconnect test looks at the balance before the delta only: an Add
\* that finds a balance below the threshold is never rejected for the threshold,
\* and applies its delta even when the result is at or over the threshold (the
\* rejection then falls on the next call, C1).
C8_DisconnectCheckBeforeDelta ==
    [][\A p \in Peers :
         (AddStep(p) /\ PreBalance(p) < disconnectThreshold)
         => /\ last'.err # ErrDisconnect
            /\ last'.loadErr # ErrStoreGet
               => /\ last'.applied
                  /\ last'.newBalance = PreBalance(p) + last'.amount]_vars

\* an Add took the balance from below the threshold to the threshold or over it
C8_Witness ==
    /\ last.op = "Add" /\ last.pre < disconnectThreshold /\ last.err = NoErr
    /\ last.newBalance >= disconnectThreshold
    /\ balances[last.peer] >= disconnectThreshold

C10_LoadErrorAborts ==
    [][\A p \in Peers :
         AddStep(p)
         => /\ last'.loadErr = ErrStoreGet
               => /\ last'.err = ErrStoreGet
                  /\ ~last'.applied /\ deltas' = deltas
                  /\ stateStore' = stateStore
                  /\ last'.attempts = 0 /\ issued' = issued /\ cheques' = cheques
            /\ (p \notin DOMAIN balances /\ balanceKey(p) \notin DOMAIN stateStore
                  /\ last'.loadErr # ErrStoreGet)
               => /\ last'.loadErr = ErrNotFound
                  /\ last'.pre = 0 /\ last'.applied
                  /\ last'.newBalance = last'.amount
                  /\ last'.err # ErrNotFound]_vars

\* an Add was aborted by a read error while the store held a balance for the peer
C10_Witness ==
    /\ last.op = "Add" /\ last.loadErr = ErrStoreGet /\ last.err = ErrStoreGet
    /\ balanceKey(last.peer) \in DOMAIN stateStore
    /\ stateStore[balanceKey(last.peer)] # 0

\* C11: when the price conversion fails, the cheque cache and the store's
\* last-sent cheque stay as they were, nothing is sent, and the balance stays at
\* the value the Add wrote after its delta (no credit-back, no rollback).
C11_PriceFailureNoChange ==
    [][\A p \in Peers :
         (AddStep(p) /\ last'.err = ErrPrice)
         => /\ cheques' = cheques
            /\ issued' = issued /\ ~last'.emitted /\ last'.cheque.nil
            /\ last'.newBalance = PreBalance(p) + last'.amount
            /\ balances'[p] = last'.newBalance
            /\ stateStore' = MapPut(stateStore, balanceKey(p), last'.newBalance)]_vars

\* a price failure hit the first cheque attempt of a session for a debt
\* at the payment threshold
C11_Witness ==
    /\ last.op = "Add" /\ last.err = ErrPrice /\ last.attempts = 1
    /\ last.peer \notin DOMAIN cheques
    /\ balances[last.peer] <= 0 - paymentThreshold

\* C12: a cheque handed to the peer is already the last-sent cheque in the
\* store, and a cheque whose store write failed is not handed to the peer.
C12_StoredBeforeSent ==
    (last.op = "Add" /\ ~last.cheque.nil)
    => /\ last.emitted
          => /\ last.stored
             /\ sentChequeKey(last.peer) \in DOMAIN stateStore
             /\ stateStore[sentChequeKey(last.peer)] = last.cheque
       /\ ~last.stored => ~last.emitted /\ last.err = ErrStorePut

\* a cheque was created but its store write failed
C12_Witness ==
    /\ last.op = "Add" /\ ~last.cheque.nil /\ ~last.stored /\ ~last.emitted
    /\ last.err = ErrStorePut

C20_HoneyIsDebt ==
    (last.op = "Add" /\ last.attempts = 1)
    => /\ last.newBalance < 0
       /\ ~last.cheque.nil => /\ last.cheque.Honey = 0 - last.newBalance
                              /\ last.cheque.Honey > 0

\* a second cheque for a peer, its honey the debt of this call alone
C20_Witness ==
    /\ last.op = "Add" /\ ~last.cheque.nil /\ last.cheque.Serial = 2
    /\ last.cheque.Honey = 0 - last.newBalance
    /\ last.cheque.Amount > last.cheque.Honey

\* ------------------------------------------------------------- deployment
\* the attempts of the deploy call so far, the failed ones and the waits
TriesOf(log) == {i \in 1..Len(log) : log[i] # "wait"}
FailuresOf(log) == {i \in 1..Len(log) : log[i] \in {"submitErr", "confirmErr"}}
WaitsOf(log) == {i \in 1..Len(log) : log[i] = "wait"}

\* C15: deploy succeeds exactly when fewer attempts than the retry bound
\* failed before one succeeded, and then returns the address of the confirmed
\* deployment; when it fails it has made exactly deployRetries attempts, all
\* failed, and returns the error of the last attempt unmodified
C15_DeployRetryBound ==
    /\ Cardinality(TriesOf(dlog)) <= deployRetries
    /\ dpc = "done"
       => /\ dresult.err = NoDeployErr <=> Cardinality(FailuresOf(dlog)) < deployRetries
          /\ dresult.err = NoDeployErr
             => /\ dlog[Len(dlog)] = "ok"
                /\ Cardinality(TriesOf(dlog)) = Cardinality(FailuresOf(dlog)) + 1
                /\ dresult.addr = attempts
                /\ dresult.addr \in deployed
          /\ dresult.err # NoDeployErr
             => /\ Cardinality(TriesOf(dlog)) = deployRetries
                /\ FailuresOf(dlog) = TriesOf(dlog)
                /\ dresult.err = <<dlog[Len(dlog)], attempts>>

C15_Witness ==
    /\ dpc = "done"
    /\ dresult.err = <<"confirmErr", attempts>>
    /\ Cardinality(FailuresOf(dlog)) = deployRetries
    /\ dlog[1] = "submitErr"

\* C18: the delay is waited before every attempt after the first and never
\* before the first: a wait follows a failed attempt and is followed by the
\* next attempt, and a finished call of n attempts has waited n - 1 times
C18_DelayBetweenAttempts ==
    /\ \A i \in WaitsOf(dlog) : i > 1 /\ i - 1 \in FailuresOf(dlog)
    /\ \A i \in TriesOf(dlog) : i > 1 => i - 1 \in WaitsOf(dlog)
    /\ dpc \in {"head", "done"} /\ dlog # <<>> => Len(dlog) \in TriesOf(dlog)
    /\ dpc = "done" => Cardinality(WaitsOf(dlog)) = Cardinality(TriesOf(dlog)) - 1

C18_Witness ==
    /\ dpc = "done"
    /\ Cardinality(TriesOf(dlog)) = deployRetries
    /\ Cardinality(WaitsOf(dlog)) = deployRetries - 1
    /\ dlog[1] # "wait" /\ dlog[2] = "wait"

\* C19: when deploy returns an error, owner.Contract and contractReference
\* are what they were before the call; when it succeeds, owner.Contract is
\* the returned address and contractReference the handle of the confirmed
\* deployment
C19_RecordedOnlyOnSuccess ==
    dpc = "done"
    => IF dresult.err # NoDeployErr
       THEN /\ ownerContract = before.contract
            /\ contractReference = before.reference
       ELSE /\ ownerContract = dresult.addr
            /\ contractReference = dresult.addr
            /\ contractReference \in deployed

\* ----------------------------------------------------------- read accessors
\* the peers with a cached balance and the peers with a balance in the store
CachedPeers == DOMAIN balances
StoredPeers == {p \in Peers : balanceKey(p) \in DOMAIN stateStore}

\* C16: a successful BalancePeers lists every peer of the cache and every peer
\* of the store, each exactly once and no other; a successful Balances has
\* these peers as its keys and for each the value Balance returns for it
C16_PeersAreUnion ==
    /\ (last.op = "BalancePeers" /\ last.err = NoErr)
       => /\ {last.peers[i] : i \in DOMAIN last.peers} = CachedPeers \cup StoredPeers
          /\ Len(last.peers) = Cardinality(CachedPeers \cup StoredPeers)
    /\ (last.op = "Balances" /\ last.err = NoErr)
       => /\ DOMAIN last.all = CachedPeers \cup StoredPeers
          /\ \A p \in DOMAIN last.all :
                last.all[p] = Balance(balances, stateStore, p, FALSE).value

C16_Witness ==
    /\ last.op = "BalancePeers" /\ last.err = NoErr
    /\ CachedPeers \cap StoredPeers # {}
    /\ Len(last.peers) = Cardinality(CachedPeers \cup StoredPeers)

\* C17: Balance returns the cached value of a cached peer and the store's
\* value otherwise (an error when the store has none), and changes neither
\* the balance cache nor the cheque cache nor the store
C17_BalanceIsPureRead ==
    [][\A p \in Peers :
         (last'.op = "Balance" /\ last'.peer = p)
         => /\ balances' = balances /\ cheques' = cheques /\ stateStore' = stateStore
            /\ p \in CachedPeers => last'.value = balances[p] /\ last'.err = NoErr
            /\ (p \notin CachedPeers /\ last'.err = NoErr)
               => p \in StoredPeers /\ last'.value = stateStore[balanceKey(p)]
            /\ (p \notin CachedPeers /\ p \notin StoredPeers)
               => last'.err = ErrNotFound \/ last'.err = ErrStoreGet]_vars

C17_Witness ==
    /\ last.op = "Balance" /\ last.err = NoErr
    /\ last.peer \notin CachedPeers /\ last.peer \in StoredPeers
    /\ last.value = stateStore[balanceKey(last.peer)] /\ last.value # 0

\* ------------------------------------------------------------- concurrency
\* the sessions whose Add is between Lock and Unlock
InAdd == {p \in Procs : pc[p] \in {"load", "check", "update", "cheque", "unlock"}}

\* one Add call run alone from a state st of the caches and the store
AddAlone(st, c) ==
    LET ld == loadBalance(st.balances, st.stateStore, c.peer, FALSE)
        upd == updateBalance(ld.balances, st.stateStore, c.peer, c.amount, FALSE)
        sc == sendCheque(upd.balances, st.cheques, upd.stateStore, c.peer, NoFaults)
    IN  IF loadFailed(ld.err) \/ overDisconnectThreshold(ld.balances[c.peer])
        THEN [st EXCEPT !.balances = ld.balances]
        ELSE IF overPaymentThreshold(upd.balance)
        THEN [balances |-> sc.balances, cheques |-> sc.cheques, stateStore |-> sc.stateStore]
        ELSE [balances |-> upd.balances, cheques |-> st.cheques, stateStore |-> upd.stateStore]

\* the calls of the sessions run one after the other in the order o
RECURSIVE InOrder(_, _)
InOrder(st, o) ==
    IF o = <<>> THEN st ELSE InOrder(AddAlone(st, calls[Head(o)]), Tail(o))

Fresh == [balances |-> EmptyMap, cheques |-> EmptyMap, stateStore |-> EmptyMap]
Now == [balances |-> balances, cheques |-> cheques, stateStore |-> stateStore]

\* C14: at most one Add call is between Lock and Unlock at any time, and when
\* all calls have returned the balances, the last-sent cheques and the store
\* are those of the calls run one after the other in some order
C14_AddSerialized ==
    /\ Cardinality(InAdd) <= 1
    /\ (\A p \in Procs : pc[p] = "done")
       => \E o \in Orders(Procs) : Now = InOrder(Fresh, o)

C14_Witness ==
    /\ \A p \in Procs : pc[p] = "done"
    /\ \E o1, o2 \in Orders(Procs) :
          /\ InOrder(Fresh, o1) # InOrder(Fresh, o2)
          /\ Now = InOrder(Fresh, o1)
    /\ \E p \in Procs : calls[p].peer \in DOMAIN cheques

\* ------------------------------------------------------- loading and caches
\* C21: an Add aborted by a store read error other than not-found leaves the
\* peer's balance unloaded, so the first Add of a session that applies a
\* delta to a persisted balance applies it to that balance, never to zero
C21_ReadErrorNotLoaded ==
    [][\A p \in Peers :
         AddStep(p)
         => /\ (p \notin DOMAIN balances /\ balanceKey(p) \in DOMAIN stateStore
                  /\ last'.loadErr = ErrStoreGet)
               => p \notin DOMAIN balances' \/ balances'[p] = stateStore[balanceKey(p)]
            /\ (last'.applied /\ p \notin modified /\ balanceKey(p) \in DOMAIN stateStore)
               => last'.newBalance = stateStore[balanceKey(p)] + last'.amount]_vars

\* C22: between Add calls, every non-empty cached last-sent cheque is the
\* cheque stored under the peer's sent-cheque key
C22_ChequeCacheIsStore ==
    \A p \in DOMAIN cheques :
        ~cheques[p].nil
        => /\ sentChequeKey(p) \in DOMAIN stateStore
           /\ stateStore[sentChequeKey(p)] = cheques[p]

\* C23: with a 1:1 price, a peer for which Add was only ever called with
\* non-positive amounts never has a positive balance, in the cache or in the
\* store, however many cheques were issued to it
C23_SettlementNeverOverpays ==
    \A p \in Peers :
        (/\ p \notin credited
         /\ \A i \in DOMAIN issued[p] : issued[p][i].amount = issued[p][i].cheque.Honey)
        => /\ p \in DOMAIN balances => balances[p] <= 0
           /\ balanceKey(p) \in DOMAIN stateStore => stateStore[balanceKey(p)] <= 0
           /\ p \notin over

\* C24: a Balance read made while an Add for the same peer holds the lock
\* returns the balance the peer had when that Add began or the balance it has
\* when that Add has done all its writes, never a value in between
C24_ReadSeesNoIntermediate ==
    \A p \in Procs :
        (/\ pc[p] = "unlock"
         /\ read.during = p /\ read.peer = calls[p].peer /\ ~read.fatal)
        => \/ read.value = entry[p]
           \/ read.value = Balance(balances, stateStore, read.peer, FALSE).value

\* -------------------------------------------------- syncing subscriptions
\* the bins of a range [start, end), and the bins of a slice
BinsOf(r) == {b \in 0..(MaxPO + 2) : r.start <= b /\ b < r.end}
Elems(q) == {q[i] : i \in DOMAIN q}
NewBins == BinsOf(syncBins(sync.peerPO, sync.newDepth, sync.max))
PrevBins == BinsOf(syncBins(sync.peerPO, sync.prevDepth, sync.max))

\* what C25 says of a call: with no previous depth the whole new range is
\* subscribed and nothing quit; otherwise subBins are the bins of the new
\* range not in the previous one, quitBins those of the previous range not in
\* the new one, each once
DiffIsExact ==
    IF sync.prevDepth < 0
    THEN /\ sync.subBins = intRange(syncBins(sync.peerPO, sync.newDepth, sync.max).start,
                                    syncBins(sync.peerPO, sync.newDepth, sync.max).end)
         /\ Elems(sync.subBins) = NewBins
         /\ sync.quitBins = <<>>
    ELSE /\ Elems(sync.subBins) = NewBins \ PrevBins
         /\ Elems(sync.quitBins) = PrevBins \ NewBins
         /\ Len(sync.subBins) = Cardinality(NewBins \ PrevBins)
         /\ Len(sync.quitBins) = Cardinality(PrevBins \ NewBins)
         /\ Elems(sync.subBins) \cap Elems(sync.quitBins) = {}
         /\ (PrevBins \cup Elems(sync.subBins)) \ Elems(sync.quitBins) = NewBins

\* C25 as stated: for all non-negative peerPO, prevDepth, newDepth and max
C25_DiffExactForAll == sync.called => DiffIsExact

\* C25 amended: the same, with a previous depth only for a peer whose
\* proximity order is at most max
C25_DiffExactWithinMax ==
    (sync.called /\ (sync.prevDepth < 0 \/ sync.peerPO <= sync.max)) => DiffIsExact

C25_Witness ==
    /\ sync.called /\ sync.peerPO <= sync.max /\ sync.prevDepth >= 0
    /\ sync.peerPO < sync.prevDepth /\ sync.newDepth < sync.peerPO
    /\ Len(sync.subBins) >= 2 /\ sync.quitBins = <<>>
    /\ sync.peerPO \notin Elems(sync.subBins)

====
